---- MODULE Spec2Model ----
(***************************************************************************)
(* Tangled cookie / consent utilities.                                     *)
(*                                                                         *)
(* Two scripts are modelled:                                               *)
(*   "full" : src/unnamed/part_000            (complete TangledCookies API *)
(*            and the cookie-banner-strip banner)                          *)
(*   "lite" : src/tangled website/tangled-consent.js (getConsent,          *)
(*            setConsent, theme helpers and the t-consent-island banner)   *)
(*                                                                         *)
(* JavaScript strings are sequences of one-character strings, so that the  *)
(* code's split / trim / startsWith / percent-coding are computed, not     *)
(* assumed.  Time is counted in units of 10^5 ms (864e5 ms = 864 units),   *)
(* which keeps Date.now() arithmetic inside TLC's integers.                *)
(***************************************************************************)
EXTENDS Integers, Sequences, FiniteSets, TLC

VARIABLES
    env,        \* the globals of the environment: whether `window` and `document` exist
    jar,        \* the browser's cookie store: a sequence of cookies, oldest first
    clock,      \* Date.now()
    api,        \* which script last assigned window.TangledCookies
    dom,        \* the banner elements of document.body, in document order
    readyState, \* document.readyState
    pending,    \* DOMContentLoaded listeners registered and not yet run
    timers,     \* setTimeout callbacks not yet fired (each removes one element)
    nextId,     \* identity of the next element created
    last,       \* the operation just performed: its arguments (args), the consent
                \* record it read before acting (curr) and what it returned (ret)
    hist        \* history, for the claims only:
                \*   choice : setConsent was called or a wired banner button clicked
                \*   raw    : t_consent was written or removed through set / remove
                \*   ticks  : how often the clock advanced

vars == <<env, jar, clock, api, dom, readyState, pending, timers, nextId, last, hist>>

----------------------------------------------------------------------------
(* JavaScript values and string primitives *)

\* null and undefined: values that equal no string
Null == <<"#null">>
Undefined == <<"#undefined">>
\* the exception decodeURIComponent raises on a malformed escape
URIError == <<"#URIError">>

Digits == <<"0", "1", "2", "3", "4", "5", "6", "7", "8", "9">>
IsDigit(c) == \E i \in 1..10 : Digits[i] = c
DigitVal(c) == (CHOOSE i \in 1..10 : Digits[i] = c) - 1

\* String(value)
String(v) ==
    IF v = Undefined THEN <<"u", "n", "d", "e", "f", "i", "n", "e", "d">>
    ELSE IF v = Null THEN <<"n", "u", "l", "l">>
    ELSE v

\* a falsy string-or-null value: null, undefined or ""
Falsy(v) == v = Null \/ v = Undefined \/ v = <<>>

\* Number.prototype.toString for a non-negative integer, and for any integer
RECURSIVE NatToString(_)
NatToString(n) ==
    IF n < 10 THEN <<Digits[n + 1]>>
    ELSE Append(NatToString(n \div 10), Digits[(n % 10) + 1])

NumToString(n) == IF n < 0 THEN <<"-">> \o NatToString(0 - n) ELSE NatToString(n)

\* String.prototype.trim over the white space the model uses (the space)
RECURSIVE trimStart(_)
trimStart(s) ==
    IF s # <<>> /\ Head(s) = " " THEN trimStart(Tail(s)) ELSE s

RECURSIVE trimEnd(_)
trimEnd(s) ==
    IF s # <<>> /\ s[Len(s)] = " " THEN trimEnd(SubSeq(s, 1, Len(s) - 1)) ELSE s

trim(s) == trimEnd(trimStart(s))

\* String.prototype.startsWith
startsWith(s, t) == Len(t) <= Len(s) /\ SubSeq(s, 1, Len(t)) = t

\* String.prototype.substring(from) with a 0-based index
substring(s, from) == SubSeq(s, from + 1, Len(s))

\* the positions 1..n in order
Indices(n) == [i \in 1..n |-> i]

\* String.prototype.split(sep) for a one-character separator: the pieces
\* between consecutive occurrences of sep (one piece more than occurrences)
split(s, sep) ==
    LET seps == SelectSeq(Indices(Len(s)), LAMBDA i : s[i] = sep)
        n == Len(seps)
    IN [k \in 1..(n + 1) |->
           SubSeq(s, IF k = 1 THEN 1 ELSE seps[k - 1] + 1,
                     IF k = n + 1 THEN Len(s) ELSE seps[k] - 1)]

\* The value of a run of decimal digits
RECURSIVE DigitsVal(_)
DigitsVal(s) ==
    IF s = <<>> THEN 0
    ELSE DigitsVal(SubSeq(s, 1, Len(s) - 1)) * 10 + DigitVal(s[Len(s)])

AllDigits(s) == s # <<>> /\ \A i \in 1..Len(s) : IsDigit(s[i])

\* Number(v) || 0, for v undefined, white space, a signed decimal integer
\* literal, or text that is no numeric literal (Number gives NaN, so 0).
\* Fractions, exponents and hexadecimal literals are outside the model's inputs.
NumberOr0(v) ==
    LET t == trim(v) IN
    IF v = Undefined \/ v = Null THEN 0
    ELSE IF AllDigits(t) THEN DigitsVal(t)
    ELSE IF Len(t) >= 2 /\ t[1] = "-" /\ AllDigits(Tail(t)) THEN 0 - DigitsVal(Tail(t))
    ELSE IF Len(t) >= 2 /\ t[1] = "+" /\ AllDigits(Tail(t)) THEN DigitsVal(Tail(t))
    ELSE 0

----------------------------------------------------------------------------
(* encodeURIComponent / decodeURIComponent *)

\* The characters of the model that encodeURIComponent escapes, with their
\* two hexadecimal digits; every other character of the model is unreserved.
EscapeOf ==
    [c \in {"=", "|", ";", " ", "%", ","} |->
        CASE c = "=" -> <<"3", "D">>
          [] c = "|" -> <<"7", "C">>
          [] c = ";" -> <<"3", "B">>
          [] c = " " -> <<"2", "0">>
          [] c = "%" -> <<"2", "5">>
          [] c = "," -> <<"2", "C">>]

\* each character is escaped or kept; the string is taken by halves
RECURSIVE encodeURIComponent(_)
encodeURIComponent(s) ==
    IF s = <<>> THEN <<>>
    ELSE IF Len(s) = 1
         THEN (IF s[1] \in DOMAIN EscapeOf THEN <<"%">> \o EscapeOf[s[1]] ELSE s)
         ELSE encodeURIComponent(SubSeq(s, 1, Len(s) \div 2))
              \o encodeURIComponent(SubSeq(s, Len(s) \div 2 + 1, Len(s)))

\* decodeURIComponent: every "%" must be followed by two hexadecimal digits
\* naming a character, otherwise URIError is raised; the two digits after a
\* "%" are dropped and the "%" is replaced by the character they name.
decodeURIComponent(s) ==
    LET n == Len(s)
        Named(i) == {c \in DOMAIN EscapeOf : EscapeOf[c] = SubSeq(s, i + 1, i + 2)}
        bad == \E i \in 1..n : s[i] = "%" /\ (i + 2 > n \/ Named(i) = {})
        keep == SelectSeq(Indices(n),
                          LAMBDA i : /\ ~(i >= 2 /\ s[i - 1] = "%")
                                     /\ ~(i >= 3 /\ s[i - 2] = "%"))
    IN IF bad THEN URIError
       ELSE [k \in 1..Len(keep) |->
                IF s[keep[k]] = "%" THEN CHOOSE c \in Named(keep[k]) : TRUE
                ELSE s[keep[k]]]

----------------------------------------------------------------------------
(* The browser's cookie store behind document.cookie *)

\* 864e5 ms, one day, in units of 10^5 ms
DAY == 864
\* the expiry of a cookie written without an Expires attribute
Session == -1
\* the path of the page the scripts run on: a page below the root of the site
PagePath == <<"/", "s">>
\* RFC 6265 default-path of the page, the path of a cookie written without a
\* Path attribute: the page's path up to, not including, its last "/"
DefaultPath ==
    LET slashes == SelectSeq(Indices(Len(PagePath)), LAMBDA i : PagePath[i] = "/")
        right == slashes[Len(slashes)]
    IN IF right = 1 THEN <<"/">> ELSE SubSeq(PagePath, 1, right - 1)

Expired(c, now) == c.expires # Session /\ c.expires <= now

SameCookie(c, d) == c.name = d.name /\ c.path = d.path

\* Assigning "name=value; Expires=...; Path=..." to document.cookie: an expiry
\* that is not in the future deletes the cookie of that name and path, otherwise
\* the cookie replaces it in place or is added.
StoreCookie(j, c, now) ==
    IF Expired(c, now) THEN SelectSeq(j, LAMBDA d : ~SameCookie(c, d))
    ELSE IF \E i \in 1..Len(j) : SameCookie(j[i], c)
         THEN [i \in 1..Len(j) |-> IF SameCookie(j[i], c) THEN c ELSE j[i]]
         ELSE Append(j, c)

\* What the store drops when the clock reaches `now`
Purge(j, now) == SelectSeq(j, LAMBDA c : ~Expired(c, now))

\* RFC 6265 path-match of the page's path against a cookie's path
PathMatch(p) ==
    /\ startsWith(PagePath, p)
    /\ \/ Len(p) = Len(PagePath)
       \/ p[Len(p)] = "/"
       \/ PagePath[Len(p) + 1] = "/"

RECURSIVE JoinCookies(_)
JoinCookies(cs) ==
    IF cs = <<>> THEN <<>>
    ELSE Head(cs).name \o <<"=">> \o Head(cs).value
         \o (IF Len(cs) > 1 THEN <<";", " ">> ELSE <<>>)
         \o JoinCookies(Tail(cs))

RECURSIVE ByPathLength(_, _)
ByPathLength(cs, n) ==
    IF n = 0 THEN <<>>
    ELSE SelectSeq(cs, LAMBDA c : Len(c.path) = n) \o ByPathLength(cs, n - 1)

\* Reading document.cookie: the cookies visible to the page, longer paths
\* first and older cookies first among equal paths, joined by "; ".
DocumentCookie(j) ==
    LET seen == SelectSeq(j, LAMBDA c : PathMatch(c.path)) IN
    JoinCookies(ByPathLength(seen, Len(PagePath)))

----------------------------------------------------------------------------
(* src/unnamed/part_000: low-level cookie helpers *)

CONSENT_COOKIE == <<"t", "_", "c", "o", "n", "s", "e", "n", "t">>
AB_COOKIE == <<"t", "_", "a", "b">>
THEME_KEY == <<"t", "_", "p", "r", "e", "f", "_", "t", "h", "e", "m", "e">>
LANG_KEY == <<"t", "_", "p", "r", "e", "f", "_", "l", "a", "n", "g">>

\* options is a record that may hold path, expires, expiresDays (sameSite and
\* secure do not change what the store keeps for an https page)
setCookie(j, now, name, value, options) ==
    LET path == IF "path" \in DOMAIN options THEN options.path ELSE <<"/">>
        expires ==
            IF "expires" \in DOMAIN options THEN options.expires
            ELSE IF "expiresDays" \in DOMAIN options
                 THEN now + options.expiresDays * DAY
                 ELSE Session
        \* `if (opts.path)`: an empty path writes no Path attribute, and the
        \* browser then uses the default path of the page
        stored == IF path = <<>> THEN DefaultPath ELSE path
    IN StoreCookie(j, [name |-> encodeURIComponent(name),
                       value |-> encodeURIComponent(String(value)),
                       path |-> stored,
                       expires |-> expires], now)

\* The parts compared as split leaves them, with the blank that follows "; "
RECURSIVE FirstMatchNoTrim(_, _)
FirstMatchNoTrim(parts, target) ==
    IF parts = <<>> THEN Null
    ELSE LET p == Head(parts) IN
         IF startsWith(p, target) THEN decodeURIComponent(substring(p, Len(target)))
         ELSE FirstMatchNoTrim(Tail(parts), target)

RECURSIVE FirstMatch(_, _)
FirstMatch(parts, target) ==
    IF parts = <<>> THEN Null
    ELSE LET p == trim(Head(parts)) IN
         IF startsWith(p, target) THEN decodeURIComponent(substring(p, Len(target)))
         ELSE FirstMatch(Tail(parts), target)

getCookie(j, name) ==
    FirstMatch(split(DocumentCookie(j), ";"), encodeURIComponent(name) \o <<"=">>)

deleteCookie(j, now, name) ==
    StoreCookie(j, [name |-> encodeURIComponent(name), value |-> <<>>,
                    path |-> <<"/">>, expires |-> 0], now)

----------------------------------------------------------------------------
(* src/unnamed/part_000: consent store *)

DEFAULT_CONSENT ==
    [analytics |-> FALSE, experiments |-> FALSE, marketing |-> FALSE, ts |-> 0]

Bit(b) == IF b THEN <<"1">> ELSE <<"0">>

\* `obj.ts || Date.now()`: a timestamp of 0 is replaced by the current time
encodeConsent(obj, now) ==
    LET ts == IF obj.ts # 0 THEN obj.ts ELSE now IN
    <<"a", "=">> \o Bit(obj.analytics) \o <<"|", "e", "=">> \o Bit(obj.experiments)
    \o <<"|", "m", "=">> \o Bit(obj.marketing) \o <<"|", "t", "s", "=">> \o NumToString(ts)

\* Flags read by truthiness of a digit: `v !== '0'` in place of `v === '1'`
RECURSIVE DecodePairsNotZero(_, _)
DecodePairsNotZero(pairs, out) ==
    IF pairs = <<>> THEN out
    ELSE LET kv == split(Head(pairs), "=")
             k == kv[1]
             v == IF Len(kv) >= 2 THEN kv[2] ELSE Undefined
             upd == IF k = <<>> THEN out
                    ELSE IF k = <<"a">> THEN [out EXCEPT !.analytics = (v # <<"0">>)]
                    ELSE IF k = <<"e">> THEN [out EXCEPT !.experiments = (v # <<"0">>)]
                    ELSE IF k = <<"m">> THEN [out EXCEPT !.marketing = (v # <<"0">>)]
                    ELSE IF k = <<"t", "s">> THEN [out EXCEPT !.ts = NumberOr0(v)]
                    ELSE out
         IN DecodePairsNotZero(Tail(pairs), upd)

\* Each flag written into a fresh copy of the defaults:
\* `out = { ...DEFAULT_CONSENT, analytics: v === '1' }`
RECURSIVE DecodePairsResetting(_, _)
DecodePairsResetting(pairs, out) ==
    IF pairs = <<>> THEN out
    ELSE LET kv == split(Head(pairs), "=")
             k == kv[1]
             v == IF Len(kv) >= 2 THEN kv[2] ELSE Undefined
             upd == IF k = <<>> THEN out
                    ELSE IF k = <<"a">> THEN [DEFAULT_CONSENT EXCEPT !.analytics = (v = <<"1">>)]
                    ELSE IF k = <<"e">> THEN [DEFAULT_CONSENT EXCEPT !.experiments = (v = <<"1">>)]
                    ELSE IF k = <<"m">> THEN [DEFAULT_CONSENT EXCEPT !.marketing = (v = <<"1">>)]
                    ELSE IF k = <<"t", "s">> THEN [out EXCEPT !.ts = NumberOr0(v)]
                    ELSE out
         IN DecodePairsResetting(Tail(pairs), upd)

RECURSIVE DecodePairs(_, _)
DecodePairs(pairs, out) ==
    IF pairs = <<>> THEN out
    ELSE LET kv == split(Head(pairs), "=")
             k == kv[1]
             v == IF Len(kv) >= 2 THEN kv[2] ELSE Undefined
             upd == IF k = <<>> THEN out
                    ELSE IF k = <<"a">> THEN [out EXCEPT !.analytics = (v = <<"1">>)]
                    ELSE IF k = <<"e">> THEN [out EXCEPT !.experiments = (v = <<"1">>)]
                    ELSE IF k = <<"m">> THEN [out EXCEPT !.marketing = (v = <<"1">>)]
                    ELSE IF k = <<"t", "s">> THEN [out EXCEPT !.ts = NumberOr0(v)]
                    ELSE out
         IN DecodePairs(Tail(pairs), upd)

decodeConsent(str) ==
    IF Falsy(str) THEN DEFAULT_CONSENT
    ELSE DecodePairs(split(str, "|"), DEFAULT_CONSENT)

getConsent(j) == decodeConsent(getCookie(j, CONSENT_COOKIE))

\* The stamp spread before partial: { ...curr, ts: Date.now(), ...partial }
MergeStampFirst(curr, partial, now) ==
    [k \in DOMAIN curr \cup DOMAIN partial |->
        IF k \in DOMAIN partial THEN partial[k]
        ELSE IF k = "ts" THEN now
        ELSE curr[k]]

\* The current record left out: { ...DEFAULT_CONSENT, ...partial, ts: Date.now() }
MergeOverDefault(curr, partial, now) ==
    [k \in DOMAIN curr \cup DOMAIN partial |->
        IF k = "ts" THEN now
        ELSE IF k \in DOMAIN partial THEN partial[k] ELSE DEFAULT_CONSENT[k]]

\* { ...curr, ...partial, ts: Date.now() }
Merge(curr, partial, now) ==
    [k \in DOMAIN curr \cup DOMAIN partial |->
        IF k = "ts" THEN now
        ELSE IF k \in DOMAIN partial THEN partial[k] ELSE curr[k]]

\* setConsent(partial, ttlDays): the store it leaves (jar), the record it
\* returns (ret) and the record it read first (curr)
setConsent(j, now, partial, ttlDays) ==
    LET curr == getConsent(j)
        next == Merge(curr, partial, now)
    IN [jar |-> setCookie(j, now, CONSENT_COOKIE, encodeConsent(next, now),
                          [expiresDays |-> ttlDays]),
        ret |-> next,
        curr |-> curr]

\* `Boolean(c[category])`: any truthy field counts, the timestamp included
hasConsentTruthy(j, category) ==
    LET c == getConsent(j) IN
    /\ category \in DOMAIN c
    /\ IF category = "ts" THEN c.ts # 0 ELSE c[category]

\* `c[category] === true`: a number (ts) or a missing key is never true
hasConsent(j, category) ==
    LET c == getConsent(j) IN
    /\ category \in {"analytics", "experiments", "marketing"}
    /\ c[category] = TRUE

----------------------------------------------------------------------------
(* src/unnamed/part_000: preferences and A/B assignment *)

Range(f) == {f[i] : i \in DOMAIN f}

\* The clearing branch of setTheme written with the other preference's key
setThemeClearingLang(j, now, val, ttlDays) ==
    IF val = Null \/ val = Undefined \/ val = <<>> THEN deleteCookie(j, now, LANG_KEY)
    ELSE setCookie(j, now, THEME_KEY, String(val), [expiresDays |-> ttlDays])

setTheme(j, now, val, ttlDays) ==
    IF val = Null \/ val = Undefined \/ val = <<>> THEN deleteCookie(j, now, THEME_KEY)
    ELSE setCookie(j, now, THEME_KEY, String(val), [expiresDays |-> ttlDays])

setLang(j, now, val, ttlDays) ==
    IF val = Null \/ val = Undefined \/ val = <<>> THEN deleteCookie(j, now, LANG_KEY)
    ELSE setCookie(j, now, LANG_KEY, String(val), [expiresDays |-> ttlDays])

\* `if (v && variants.includes(v)) return v`
assignABKeeps(j, variants) ==
    LET v == getCookie(j, AB_COOKIE) IN ~Falsy(v) /\ v \in Range(variants)

\* Math.round in place of Math.floor: the index may be variants.length
assignABPicksRound(variants) == Range(variants) \cup {Undefined}

\* `variants[Math.floor(Math.random() * variants.length)]`: any element, and
\* undefined for an empty array
assignABPicks(variants) ==
    IF variants = <<>> THEN {Undefined} ELSE Range(variants)

\* The gate reading another category: hasConsent('analytics')
assignABGatedOnAnalytics(j, now, variants, ttlDays, pick) ==
    IF ~hasConsent(j, "analytics") THEN [jar |-> j, ret |-> Null]
    ELSE IF assignABKeeps(j, variants) THEN [jar |-> j, ret |-> getCookie(j, AB_COOKIE)]
    ELSE [jar |-> setCookie(j, now, AB_COOKIE, pick, [expiresDays |-> ttlDays]),
          ret |-> pick]

\* assignAB({variants, ttlDays}) picking `pick` when it has to choose: the
\* store it leaves (jar) and the value it returns (ret)
assignAB(j, now, variants, ttlDays, pick) ==
    IF ~hasConsent(j, "experiments") THEN [jar |-> j, ret |-> Null]
    ELSE IF assignABKeeps(j, variants) THEN [jar |-> j, ret |-> getCookie(j, AB_COOKIE)]
    ELSE [jar |-> setCookie(j, now, AB_COOKIE, pick, [expiresDays |-> ttlDays]),
          ret |-> pick]

----------------------------------------------------------------------------
(* src/tangled website/tangled-consent.js *)

\* `if (opts.expiresDays)`: 0 days writes a session cookie; Path is always written
setCookieLite(j, now, name, value, options) ==
    LET path == IF "path" \in DOMAIN options THEN options.path ELSE <<"/">>
        expires ==
            IF "expiresDays" \in DOMAIN options /\ options.expiresDays # 0
            THEN now + options.expiresDays * DAY
            ELSE Session
    IN StoreCookie(j, [name |-> encodeURIComponent(name),
                       value |-> encodeURIComponent(String(value)),
                       path |-> path,
                       expires |-> expires], now)

getCookieLite(j, name) ==
    FirstMatch(split(DocumentCookie(j), ";"), encodeURIComponent(name) \o <<"=">>)

\* The timestamp accepted only when it is a run of digits, 0 otherwise
RECURSIVE DecodePairsLiteUnsigned(_, _)
DecodePairsLiteUnsigned(pairs, out) ==
    IF pairs = <<>> THEN out
    ELSE LET kv == split(Head(pairs), "=")
             k == kv[1]
             v == IF Len(kv) >= 2 THEN kv[2] ELSE Undefined
             upd == IF k = <<"a">> THEN [out EXCEPT !.analytics = (v = <<"1">>)]
                    ELSE IF k = <<"e">> THEN [out EXCEPT !.experiments = (v = <<"1">>)]
                    ELSE IF k = <<"m">> THEN [out EXCEPT !.marketing = (v = <<"1">>)]
                    ELSE IF k = <<"t", "s">>
                    THEN [out EXCEPT !.ts = IF NumberOr0(v) > 0 THEN NumberOr0(v) ELSE 0]
                    ELSE out
         IN DecodePairsLiteUnsigned(Tail(pairs), upd)

RECURSIVE DecodePairsLite(_, _)
DecodePairsLite(pairs, out) ==
    IF pairs = <<>> THEN out
    ELSE LET kv == split(Head(pairs), "=")
             k == kv[1]
             v == IF Len(kv) >= 2 THEN kv[2] ELSE Undefined
             upd == IF k = <<"a">> THEN [out EXCEPT !.analytics = (v = <<"1">>)]
                    ELSE IF k = <<"e">> THEN [out EXCEPT !.experiments = (v = <<"1">>)]
                    ELSE IF k = <<"m">> THEN [out EXCEPT !.marketing = (v = <<"1">>)]
                    ELSE IF k = <<"t", "s">> THEN [out EXCEPT !.ts = NumberOr0(v)]
                    ELSE out
         IN DecodePairsLite(Tail(pairs), upd)

getConsentLite(j) ==
    LET str == getCookieLite(j, CONSENT_COOKIE) IN
    IF Falsy(str) THEN DEFAULT_CONSENT
    ELSE DecodePairsLite(split(str, "|"), DEFAULT_CONSENT)

\* { ...getConsent(), ...partial, ts: Date.now() }
MergeLite(curr, partial, now) ==
    [k \in DOMAIN curr \cup DOMAIN partial |->
        IF k = "ts" THEN now
        ELSE IF k \in DOMAIN partial THEN partial[k] ELSE curr[k]]

setConsentLite(j, now, partial) ==
    LET curr == getConsentLite(j)
        next == MergeLite(curr, partial, now)
        val == <<"a", "=">> \o Bit(next.analytics) \o <<"|", "e", "=">> \o Bit(next.experiments)
               \o <<"|", "m", "=">> \o Bit(next.marketing)
               \o <<"|", "t", "s", "=">> \o NumToString(next.ts)
    IN [jar |-> setCookieLite(j, now, CONSENT_COOKIE, val, [expiresDays |-> 365]),
        ret |-> next,
        curr |-> curr]

setThemeLite(j, now, v) == setCookieLite(j, now, THEME_KEY, v, [expiresDays |-> 365])

----------------------------------------------------------------------------
(* window.TangledCookies: the implementation the page currently exposes *)

ApiGetConsent(a, j) == IF a = "lite" THEN getConsentLite(j) ELSE getConsent(j)

\* the lite setConsent takes one parameter: a ttlDays argument is ignored
ApiSetConsent(a, j, now, partial, ttlDays) ==
    IF a = "lite" THEN setConsentLite(j, now, partial)
    ELSE setConsent(j, now, partial, ttlDays)

----------------------------------------------------------------------------
(* The page: banner elements, listeners, timers *)

\* An element of `dom` is [id, kind, listeners]: kind is "strip"
\* (#cookie-banner-strip) or "island" (#t-consent-island); listeners holds one
\* entry per pair of click listeners added to its two buttons: the
\* TangledCookies object the listener captured ("full" or "lite"), or "window"
\* when it looks window.TangledCookies up at the click.

HasKind(d, kind) == \E i \in 1..Len(d) : d[i].kind = kind

\* document.getElementById: the first element with the id, in document order
FirstOf(d, kind) == CHOOSE i \in 1..Len(d) : d[i].kind = kind /\ \A k \in 1..(i - 1) : d[k].kind # kind

RemoveId(d, id) == SelectSeq(d, LAMBDA e : e.id # id)

AddListener(d, i, l) == [d EXCEPT ![i].listeners = Append(@, l)]

\* part_000, bindCookieBanner
bindCookieBanner(d, j, a) ==
    IF ~HasKind(d, "strip") \/ a = "none" THEN d
    ELSE LET i == FirstOf(d, "strip") IN
         IF ApiGetConsent(a, j).ts # 0 THEN RemoveId(d, d[i].id)
         ELSE AddListener(d, i, a)

\* tangled-consent.js, bind
bind(d) ==
    IF ~HasKind(d, "island") THEN d
    ELSE AddListener(d, FirstOf(d, "island"), "window")

RunListener(fn, d, j, a) ==
    IF fn = "bindCookieBanner" THEN bindCookieBanner(d, j, a) ELSE bind(d)

RECURSIVE RunListeners(_, _, _, _)
RunListeners(fns, d, j, a) ==
    IF fns = <<>> THEN d
    ELSE RunListeners(Tail(fns), RunListener(Head(fns), d, j, a), j, a)

\* "Accept all" taken to cover marketing as well
AcceptEverything == [analytics |-> TRUE, experiments |-> TRUE, marketing |-> TRUE]
ACCEPT_ALL == [analytics |-> TRUE, experiments |-> TRUE, marketing |-> FALSE]
REJECT_ALL == [analytics |-> FALSE, experiments |-> FALSE, marketing |-> FALSE]

\* The click listeners of one button, run in the order they were added: each
\* calls setConsent(partial) of the TangledCookies object it uses
RECURSIVE RunClicks(_, _, _, _, _)
RunClicks(ls, a, j, now, partial) ==
    IF ls = <<>> THEN j
    ELSE RunClicks(Tail(ls), a,
                   ApiSetConsent(IF Head(ls) = "window" THEN a ELSE Head(ls),
                                 j, now, partial, 365).jar,
                   now, partial)

----------------------------------------------------------------------------
(* Bounds and the inputs the operations are called with *)

\* clock advances, and banner elements created on one page
MaxTicks == 1
MaxElems == 3

\* Date.now() moves on by a moment, by the A/B time-to-live, by the consent's
Deltas == {1, 14 * DAY, 365 * DAY}

EmptyRecord == [k \in {} |-> TRUE]

Partials ==
    { EmptyRecord,
      [analytics |-> TRUE],
      [marketing |-> TRUE, ts |-> 0],
      [experiments |-> FALSE, ts |-> 7],
      ACCEPT_ALL,
      REJECT_ALL }

TtlDays == {-1, 0, 365}

VariantA == <<"A">>
VariantB == <<"B">>
VariantLists == { <<>>, <<VariantA>>, <<VariantA, VariantB>>, <<<<>>, VariantB>> }
AbTtlDays == {0, 14}

RawNames == {CONSENT_COOKIE, AB_COOKIE}
RawValues == { VariantB, <<"a", "=", "1", "|", "x">>, <<"t", "s", "=", "-", "1">> }
RawOptions == { EmptyRecord, [expiresDays |-> 1] }
\* values handed to setTheme and setLang
PrefValues == { Null, Undefined, <<>>, <<"d">> }
\* values written to t_consent through set: the above, and a timestamp that is
\* later than the clock of the first calls
FutureTs == <<"t", "s", "=", "9">>
RawConsentValues == RawValues \cup {FutureTs}

----------------------------------------------------------------------------
(* The state machine *)

\* a browser page: both globals exist
Browser == [window |-> TRUE, document |-> TRUE]

Init ==
    /\ env = Browser
    /\ jar = <<>>
    /\ clock = 1
    /\ api = "none"
    /\ dom = <<>>
    /\ readyState = "loading"
    /\ pending = <<>>
    /\ timers = {}
    /\ nextId = 1
    /\ last = [op |-> "init"]
    /\ hist = [choice |-> FALSE, raw |-> FALSE, ticks |-> 0]

HasCookie(j, name) == \E i \in 1..Len(j) : j[i].name = encodeURIComponent(name)

\* Loading src/unnamed/part_000: the API is assigned, then the banner block
\* runs.  Without `window` the assignment `window.TangledCookies = ...` raises
\* ReferenceError and the script stops; without `document` the banner block is
\* skipped by its typeof guard.
LoadFull ==
    /\ nextId <= MaxElems
    /\ IF ~env.window
       THEN /\ last' = [op |-> "load", script |-> "full", injected |-> FALSE,
                        threw |-> "ReferenceError"]
            /\ UNCHANGED <<api, dom, pending, nextId>>
       ELSE IF ~env.document
       THEN /\ api' = "full"
            /\ last' = [op |-> "load", script |-> "full", injected |-> FALSE]
            /\ UNCHANGED <<dom, pending, nextId>>
       ELSE
            /\ api' = "full"
            /\ LET inject == getConsent(jar).ts = 0 /\ ~HasKind(dom, "strip")
                   d1 == IF inject
                         THEN Append(dom, [id |-> nextId, kind |-> "strip", listeners |-> <<>>])
                         ELSE dom
               IN /\ nextId' = IF inject THEN nextId + 1 ELSE nextId
                  /\ IF inject /\ readyState = "loading"
                     THEN dom' = d1 /\ pending' = Append(pending, "bindCookieBanner")
                     ELSE IF inject
                     THEN dom' = bindCookieBanner(d1, jar, "full") /\ pending' = pending
                     ELSE dom' = dom /\ pending' = pending
                  /\ last' = [op |-> "load", script |-> "full", injected |-> inject]
    /\ UNCHANGED <<env, jar, clock, readyState, timers, hist>>

\* Loading src/tangled website/tangled-consent.js (the same two cases without
\* `window` and without `document`)
LoadLite ==
    /\ nextId <= MaxElems
    /\ IF ~env.window
       THEN /\ last' = [op |-> "load", script |-> "lite", injected |-> FALSE,
                        threw |-> "ReferenceError"]
            /\ UNCHANGED <<api, dom, pending, nextId>>
       ELSE IF ~env.document
       THEN /\ api' = "lite"
            /\ last' = [op |-> "load", script |-> "lite", injected |-> FALSE]
            /\ UNCHANGED <<dom, pending, nextId>>
       ELSE
            /\ api' = "lite"
            /\ LET inject == getConsentLite(jar).ts = 0
                   d1 == IF inject
                         THEN Append(dom, [id |-> nextId, kind |-> "island", listeners |-> <<>>])
                         ELSE dom
               IN /\ nextId' = IF inject THEN nextId + 1 ELSE nextId
                  /\ IF inject /\ readyState = "loading"
                     THEN dom' = d1 /\ pending' = Append(pending, "bind")
                     ELSE IF inject
                     THEN dom' = bind(d1) /\ pending' = pending
                     ELSE dom' = dom /\ pending' = pending
                  /\ last' = [op |-> "load", script |-> "lite", injected |-> inject]
    /\ UNCHANGED <<env, jar, clock, readyState, timers, hist>>

\* The document finishes parsing: the registered listeners run in order
DOMContentLoaded ==
    /\ readyState = "loading"
    /\ readyState' = "complete"
    /\ dom' = RunListeners(pending, dom, jar, api)
    /\ pending' = <<>>
    /\ last' = [op |-> "DOMContentLoaded"]
    /\ UNCHANGED <<env, jar, clock, api, timers, nextId, hist>>

\* The user clicks "Accept all" or "Reject all" of a banner whose buttons have listeners
Click(i, button) ==
    /\ dom[i].listeners # <<>>
    /\ jar' = RunClicks(dom[i].listeners, api, jar, clock,
                        IF button = "accept" THEN ACCEPT_ALL ELSE REJECT_ALL)
    /\ timers' = timers \cup {dom[i].id}
    /\ last' = [op |-> "click", button |-> button, id |-> dom[i].id,
                curr |-> ApiGetConsent(api, jar)]
    /\ hist' = [hist EXCEPT !.choice = TRUE]
    /\ UNCHANGED <<env, clock, api, dom, readyState, pending, nextId>>

\* A fade-out timer fires: `strip.remove()` / `island.remove()`
TimerFire(id) ==
    /\ id \in timers
    /\ timers' = timers \ {id}
    /\ dom' = RemoveId(dom, id)
    /\ last' = [op |-> "timer", id |-> id]
    /\ UNCHANGED <<env, jar, clock, api, readyState, pending, nextId, hist>>

\* The page is loaded again: a new document, the same cookie store
Reload ==
    /\ api # "none"
    /\ api' = "none"
    /\ dom' = <<>>
    /\ readyState' = "loading"
    /\ pending' = <<>>
    /\ timers' = {}
    /\ nextId' = 1
    /\ last' = [op |-> "reload"]
    /\ UNCHANGED <<env, jar, clock, hist>>

\* Time passes; the store drops the cookies whose expiry is reached
Tick(d) ==
    /\ hist.ticks < MaxTicks
    /\ clock' = clock + d
    /\ jar' = Purge(jar, clock + d)
    /\ last' = [op |-> "tick"]
    /\ hist' = [hist EXCEPT !.ticks = @ + 1]
    /\ UNCHANGED <<env, api, dom, readyState, pending, timers, nextId>>

\* TangledCookies.setConsent(partial, ttlDays)
Returned(call, op, args) ==
    /\ jar' = call.jar
    /\ last' = [op |-> op, args |-> args, ret |-> call.ret,
                curr |-> IF "curr" \in DOMAIN call THEN call.curr ELSE DEFAULT_CONSENT]

CallSetConsent(partial, ttlDays) ==
    /\ api # "none"
    /\ Returned(ApiSetConsent(api, jar, clock, partial, ttlDays), "setConsent",
                [partial |-> partial, ttlDays |-> ttlDays])
    /\ hist' = [hist EXCEPT !.choice = TRUE]
    /\ UNCHANGED <<env, clock, api, dom, readyState, pending, timers, nextId>>

\* TangledCookies.assignAB({variants, ttlDays})
CallAssignAB(variants, ttlDays) ==
    /\ api = "full"
    /\ \E pick \in assignABPicks(variants) :
          Returned(assignAB(jar, clock, variants, ttlDays, pick), "assignAB",
                   [variants |-> variants, ttlDays |-> ttlDays])
    /\ UNCHANGED <<env, clock, api, dom, readyState, pending, timers, nextId, hist>>

\* TangledCookies.set(name, value, options); without `document` the assignment
\* `document.cookie = cookie` raises ReferenceError
CallSet(name, value, options) ==
    /\ api = "full"
    /\ IF env.document
       THEN /\ jar' = setCookie(jar, clock, name, value, options)
            /\ last' = [op |-> "set", name |-> name, value |-> value,
                        options |-> options]
       ELSE /\ jar' = jar
            /\ last' = [op |-> "set", name |-> name, value |-> value,
                        options |-> options, threw |-> "ReferenceError"]
    /\ hist' = [hist EXCEPT !.raw = @ \/ (name = CONSENT_COOKIE /\ env.document)]
    /\ UNCHANGED <<env, clock, api, dom, readyState, pending, timers, nextId>>

\* TangledCookies.remove(name); without `document` it raises as set does
CallRemove(name) ==
    /\ api = "full"
    /\ IF env.document
       THEN /\ jar' = deleteCookie(jar, clock, name)
            /\ last' = [op |-> "remove", name |-> name]
       ELSE /\ jar' = jar
            /\ last' = [op |-> "remove", name |-> name, threw |-> "ReferenceError"]
    /\ hist' = [hist EXCEPT !.raw = @ \/ (name = CONSENT_COOKIE /\ env.document)]
    /\ UNCHANGED <<env, clock, api, dom, readyState, pending, timers, nextId>>

\* TangledCookies.get(name)
CallGet(name) ==
    /\ api = "full"
    /\ env.document
    /\ last' = [op |-> "get", name |-> name, ret |-> getCookie(jar, name),
                retLite |-> getCookieLite(jar, name)]
    /\ UNCHANGED <<env, jar, clock, api, dom, readyState, pending, timers, nextId, hist>>

\* TangledCookies.setTheme(val, {ttlDays}) and setLang(val, {ttlDays})
CallSetTheme(val, ttlDays) ==
    /\ api = "full"
    /\ env.document
    /\ jar' = setTheme(jar, clock, val, ttlDays)
    /\ last' = [op |-> "setTheme", val |-> val, had |-> HasCookie(jar, THEME_KEY)]
    /\ UNCHANGED <<env, clock, api, dom, readyState, pending, timers, nextId, hist>>

CallSetLang(val, ttlDays) ==
    /\ api = "full"
    /\ env.document
    /\ jar' = setLang(jar, clock, val, ttlDays)
    /\ last' = [op |-> "setLang", val |-> val, had |-> HasCookie(jar, LANG_KEY)]
    /\ UNCHANGED <<env, clock, api, dom, readyState, pending, timers, nextId, hist>>

\* Every operation, with every input of the model
Next ==
    \/ LoadFull
    \/ LoadLite
    \/ DOMContentLoaded
    \/ \E i \in 1..Len(dom), button \in {"accept", "reject"} : Click(i, button)
    \/ \E id \in timers : TimerFire(id)
    \/ Reload
    \/ \E d \in Deltas : Tick(d)
    \/ \E partial \in Partials, ttlDays \in TtlDays : CallSetConsent(partial, ttlDays)
    \/ \E variants \in VariantLists, ttlDays \in AbTtlDays : CallAssignAB(variants, ttlDays)
    \/ \E name \in RawNames, value \in RawConsentValues, options \in RawOptions :
          CallSet(name, value, options)
    \/ \E name \in RawNames : CallRemove(name)
    \/ \E name \in RawNames : CallGet(name)
    \/ \E val \in PrefValues, ttlDays \in {365} : CallSetTheme(val, ttlDays)
    \/ \E val \in PrefValues, ttlDays \in {365} : CallSetLang(val, ttlDays)

Spec == Init /\ [][Next]_vars

----------------------------------------------------------------------------
(* The consent store on a loaded page: Spec restricted to the operations that
   read or write t_consent, started after one of the scripts has run on a
   parsed document with an empty store (a state Spec reaches by
   DOMContentLoaded and LoadFull or LoadLite). *)

Loaded(script) ==
    /\ env = Browser
    /\ jar = <<>>
    /\ clock = 1
    /\ api = script
    /\ dom = <<[id |-> 1, kind |-> IF script = "full" THEN "strip" ELSE "island",
                listeners |-> <<IF script = "full" THEN "full" ELSE "window">>]>>
    /\ readyState = "complete"
    /\ pending = <<>>
    /\ timers = {}
    /\ nextId = 2
    /\ last = [op |-> "load", script |-> script, injected |-> TRUE]
    /\ hist = [choice |-> FALSE, raw |-> FALSE, ticks |-> 0]

InitConsent == Loaded("full") \/ Loaded("lite")

NextConsent ==
    \/ \E value \in RawConsentValues, options \in RawOptions :
          CallSet(CONSENT_COOKIE, value, options)
    \/ CallRemove(CONSENT_COOKIE)
    \/ \E i \in 1..Len(dom), button \in {"accept", "reject"} : Click(i, button)
    \/ \E id \in timers : TimerFire(id)
    \/ \E d \in {1, 365 * DAY} : Tick(d)
    \/ \E partial \in Partials, ttlDays \in TtlDays : CallSetConsent(partial, ttlDays)

SpecConsent == InitConsent /\ [][NextConsent]_vars

----------------------------------------------------------------------------
(* Claims about the consent store (checked under SpecConsent) *)

Categories == {"analytics", "experiments", "marketing"}

\* what getConsent() returns now
ConsentNow == ApiGetConsent(api, jar)

\* what hasConsent(category) returns now (the lite script has no hasConsent:
\* there it is the field of getConsent())
HasNow(category) ==
    IF api = "lite" THEN getConsentLite(jar)[category] ELSE hasConsent(jar, category)

\* the setConsent call just made persists its cookie: ttlDays > 0, or the lite
\* setConsent, which takes no ttlDays and always writes 365 days
Persisting == api = "lite" \/ last.args.ttlDays > 0

\* C1: once Set (ts > 0), the state is still Set after any
\* setConsent(partial, ttlDays), for every partial and every ttlDays (0 and
\* negative numbers included), and after any banner click.
C1_NeverReverts ==
    (last.op \in {"setConsent", "click"} /\ last.curr.ts > 0) => ConsentNow.ts > 0

C4_MergesPartial ==
    (last.op = "setConsent" /\ last.args.ttlDays = 365) =>
        /\ \A c \in Categories :
              HasNow(c) = IF c \in DOMAIN last.args.partial
                          THEN last.args.partial[c] ELSE last.curr[c]
        /\ last.ret = ConsentNow

C4_Witness ==
    /\ last.op = "setConsent"
    /\ last.args.ttlDays = 365
    /\ last.args.partial = [analytics |-> TRUE]
    /\ last.curr.marketing /\ ~last.curr.analytics
    /\ HasNow("marketing") /\ HasNow("analytics")

\* C12 as stated: the ts written by a setConsent call is greater than or
\* equal to the ts getConsent() returned immediately before the call (the clock
\* never runs backwards between calls).
C12_TsAdvances ==
    last.op = "setConsent" => last.ret.ts >= last.curr.ts

\* C12 amended: as long as t_consent is written only by setConsent and banner
\* clicks (no set / remove of t_consent), the ts written and returned by a
\* setConsent call is greater than or equal to the ts getConsent() returned
\* immediately before the call, and when the store keeps the cookie
\* (ttlDays > 0) it is the ts getConsent() returns afterwards.
C12_TsAdvancesOwnWrites ==
    (last.op = "setConsent" /\ ~hist.raw) =>
        /\ last.ret.ts >= last.curr.ts
        /\ Persisting => (ConsentNow.ts = last.ret.ts /\ ConsentNow.ts >= last.curr.ts)

C12_Witness ==
    /\ last.op = "setConsent"
    /\ ~hist.raw
    /\ api = "lite"
    /\ last.curr.ts > 0
    /\ last.ret.ts > last.curr.ts
    /\ ConsentNow.ts = last.ret.ts

----------------------------------------------------------------------------
(* The consent codec on its own: the inputs are drawn by InitCodec and each
   action applies the functions to the input it finds. *)

\* the largest timestamp of an input record
MaxTs == 11

ConsentRecords ==
    [analytics : BOOLEAN, experiments : BOOLEAN, marketing : BOOLEAN, ts : 0..MaxTs]

A1 == <<"a", "=", "1">>
E1 == <<"e", "=", "1">>
M0 == <<"m", "=", "0">>
Bar == <<"|">>

\* Cookie values: well formed ones, and malformed ones of every kind
CookieValues ==
    { A1 \o Bar \o E1 \o Bar \o M0 \o Bar \o <<"t", "s", "=", "5">>,
      <<"a", "=", "0">> \o Bar \o <<"e", "=", "0">> \o Bar \o M0 \o Bar \o <<"t", "s", "=", "0">>,
      <<>>,
      <<"x">>,
      <<"x", "=", "1">> \o Bar \o <<"y", "=", "2">>,
      A1 \o Bar \o <<"x">>,
      <<"x">> \o Bar \o E1 \o Bar \o <<"t", "s", "=", "9">>,
      <<"a", "=", "2">> \o Bar \o E1 \o Bar \o M0 \o Bar \o <<"t", "s", "=", "5">>,
      A1 \o Bar \o E1 \o Bar \o <<"m", "=", "1">> \o Bar \o <<"t", "s", "=", "x">>,
      <<"t", "s", "=", "-", "1">>,
      <<"a", "=", "0">> \o Bar \o <<"t", "s", "=", "-", "3">>,
      <<"t", "s", "=">>,
      <<"t", "s", "=", " ", "4", " ">>,
      <<"a">>,
      A1 \o <<"=", "0">>,
      <<"=", "1">>,
      Bar \o Bar,
      E1 \o Bar \o <<"e", "=", "0">>,
      <<"e", "=", "0">> \o Bar \o E1,
      <<"a", "=", "1", "1">>,
      <<"a", "=", "1", ";", " ", "m", "=", "1">>,
      <<"m", "=", "1", "%", "7", "C", "a", "=", "1">>,
      M0 \o Bar \o <<"t", "s", "=", "7">> \o Bar \o A1 }

InitCodec ==
    /\ env = Browser
    /\ jar = <<>>
    /\ clock \in {1, 25}
    /\ api = "full"
    /\ dom = <<>>
    /\ readyState = "complete"
    /\ pending = <<>>
    /\ timers = {}
    /\ nextId = 1
    /\ last \in {[op |-> "record", obj |-> r] : r \in ConsentRecords}
                \cup {[op |-> "value", str |-> v] : v \in CookieValues}
                \cup {[op |-> "absent"]}
    /\ hist = [choice |-> FALSE, raw |-> FALSE, ticks |-> 0]

\* decodeConsent(encodeConsent(record))
RoundTrip ==
    /\ last.op = "record"
    /\ last' = [op |-> "roundtrip", obj |-> last.obj,
                ret |-> decodeConsent(encodeConsent(last.obj, clock))]
    /\ UNCHANGED <<env, jar, clock, api, dom, readyState, pending, timers, nextId, hist>>

Stored(j, str) ==
    /\ jar' = j
    /\ last' = [op |-> "getConsent", str |-> str,
                got |-> getCookie(j, CONSENT_COOKIE),
                ret |-> getConsent(j), retLite |-> getConsentLite(j)]

\* set("t_consent", value) followed by getConsent() of either script
StoreAndGet ==
    /\ last.op = "value"
    /\ Stored(setCookie(jar, clock, CONSENT_COOKIE, last.str, EmptyRecord), last.str)
    /\ UNCHANGED <<env, clock, api, dom, readyState, pending, timers, nextId, hist>>

\* getConsent() of either script while the store holds no t_consent cookie
GetAbsent ==
    /\ last.op = "absent"
    /\ Stored(jar, Null)
    /\ UNCHANGED <<env, clock, api, dom, readyState, pending, timers, nextId, hist>>

NextCodec == RoundTrip \/ StoreAndGet \/ GetAbsent

SpecCodec == InitCodec /\ [][NextCodec]_vars

----------------------------------------------------------------------------
(* Claims about the codec (checked under SpecCodec) *)

\* C3: decodeConsent(encodeConsent(record)) = record, field for field, for
\* every record with boolean flags and a non-negative integer ts, ts = 0 included.
C3_RoundTrip == last.op = "roundtrip" => last.ret = last.obj

\* the text of a well-formed value: a=<0|1>|e=<0|1>|m=<0|1>|ts=<integer>
WellFormed(str) ==
    LET ps == split(str, "|") IN
    /\ Len(ps) = 4
    /\ \E v \in {<<"0">>, <<"1">>} : ps[1] = <<"a", "=">> \o v
    /\ \E v \in {<<"0">>, <<"1">>} : ps[2] = <<"e", "=">> \o v
    /\ \E v \in {<<"0">>, <<"1">>} : ps[3] = <<"m", "=">> \o v
    /\ startsWith(ps[4], <<"t", "s", "=">>) /\ AllDigits(substring(ps[4], 3))

PairsFor(str, key) ==
    {i \in 1..Len(split(str, "|")) : split(split(str, "|")[i], "=")[1] = key}

\* the text between the first and the second "=" of the last pair naming `key`
LastValueFor(str, key) ==
    LET i == CHOOSE n \in PairsFor(str, key) : \A m \in PairsFor(str, key) : m <= n
        kv == split(split(str, "|")[i], "=")
    IN IF Len(kv) >= 2 THEN kv[2] ELSE Undefined

FlagOf(str, key) == PairsFor(str, key) # {} /\ LastValueFor(str, key) = <<"1">>

KnownKeys == {<<"a">>, <<"e">>, <<"m">>, <<"t", "s">>}

FieldOf(key) ==
    IF key = <<"a">> THEN "analytics"
    ELSE IF key = <<"e">> THEN "experiments"
    ELSE IF key = <<"m">> THEN "marketing"
    ELSE "ts"

\* the "|"-separated pairs of what getCookie returned (none for null and "")
Pieces(str) == IF Falsy(str) THEN <<>> ELSE split(str, "|")

\* the pairs that name `key`, in order
PiecesFor(str, key) == SelectSeq(Pieces(str), LAMBDA p : split(p, "=")[1] = key)

\* C11: decoding an absent cookie, an empty string or a string made only of
\* unknown keys yields exactly the default record; and in any decoded string a
\* key among a, e, m, ts that is missing takes its default, while a key that is
\* present decodes as it does in the string holding its pairs alone.
C11_DefaultFallback ==
    last.op = "getConsent" =>
        /\ (\A key \in KnownKeys : PiecesFor(last.got, key) = <<>>) =>
               (last.ret = DEFAULT_CONSENT /\ last.retLite = DEFAULT_CONSENT)
        /\ \A key \in KnownKeys :
              LET alone == DecodePairsLite(PiecesFor(last.got, key), DEFAULT_CONSENT)
                  f == FieldOf(key)
              IN IF PiecesFor(last.got, key) = <<>>
                 THEN last.ret[f] = DEFAULT_CONSENT[f] /\ last.retLite[f] = DEFAULT_CONSENT[f]
                 ELSE last.ret[f] = alone[f] /\ last.retLite[f] = alone[f]

C11_Witness ==
    /\ last.op = "getConsent"
    /\ last.got = M0 \o Bar \o <<"t", "s", "=", "7">> \o Bar \o A1
    /\ PiecesFor(last.got, <<"e">>) = <<>>
    /\ last.ret = [analytics |-> TRUE, experiments |-> FALSE, marketing |-> FALSE, ts |-> 7]
    /\ last.retLite = last.ret

----------------------------------------------------------------------------
(* A/B assignment on a page that loaded part_000: Spec restricted to the
   operations that read or write t_ab or the experiments consent. *)

InitAB == Loaded("full")

NextAB ==
    \/ \E partial \in {ACCEPT_ALL, REJECT_ALL, [experiments |-> FALSE]} :
          CallSetConsent(partial, 365)
    \/ \E variants \in VariantLists, ttlDays \in AbTtlDays : CallAssignAB(variants, ttlDays)
    \/ \E value \in RawValues, options \in RawOptions : CallSet(AB_COOKIE, value, options)
    \/ CallRemove(AB_COOKIE)
    \/ \E d \in {1, 14 * DAY} : Tick(d)

SpecAB == InitAB /\ [][NextAB]_vars

----------------------------------------------------------------------------
(* Claims about assignAB (checked under SpecAB) *)

\* C5: assignAB returns null whenever experiments consent is false, whatever
\* t_ab holds, and then writes no cookie: the store is the same after the call.
C5_NoConsentNoWrite ==
    [][(last'.op = "assignAB" /\ ~hasConsent(jar, "experiments"))
          => (last'.ret = Null /\ jar' = jar)]_vars

C5_Witness ==
    /\ last.op = "assignAB"
    /\ last.ret = Null
    /\ ~hasConsent(jar, "experiments")
    /\ getCookie(jar, AB_COOKIE) \in Range(last.args.variants)

\* C6: while experiments consent is true and t_ab holds a member of variants,
\* assignAB returns that member and does not rewrite the cookie (a new variant
\* is written only if t_ab is absent or holds no member), for every variants
\* list, one containing the empty string included.
C6_StableAssignment ==
    [][(/\ last'.op = "assignAB"
        /\ hasConsent(jar, "experiments")
        /\ getCookie(jar, AB_COOKIE) \in Range(last'.args.variants))
          => (last'.ret = getCookie(jar, AB_COOKIE) /\ jar' = jar)]_vars

\* C7 as stated: with experiments consent, assignAB({variants}) (ttlDays left
\* at its default, 14) returns a member of variants and t_ab then holds that
\* member, for every finite variants list, the empty one included.
C7_ReturnsMember ==
    (last.op = "assignAB" /\ hasConsent(jar, "experiments") /\ last.args.ttlDays = 14) =>
        /\ last.ret \in Range(last.args.variants)
        /\ getCookie(jar, AB_COOKIE) = last.ret

\* C7 amended: with experiments consent, assignAB({variants, ttlDays}) with a
\* non-empty variants list and ttlDays > 0 (the default 14 included) returns a
\* member of variants and t_ab then holds that member; with an empty variants
\* list it returns undefined and t_ab then holds the text "undefined".
C7_ReturnsMemberNonEmpty ==
    (/\ last.op = "assignAB"
     /\ hasConsent(jar, "experiments")
     /\ last.args.ttlDays > 0) =>
        IF last.args.variants # <<>>
        THEN /\ last.ret \in Range(last.args.variants)
             /\ getCookie(jar, AB_COOKIE) = last.ret
        ELSE /\ last.ret = Undefined
             /\ getCookie(jar, AB_COOKIE) = String(Undefined)

C7_Witness ==
    /\ last.op = "assignAB"
    /\ hasConsent(jar, "experiments")
    /\ last.args.variants = <<VariantA, VariantB>>
    /\ last.args.ttlDays > 0
    /\ last.ret = VariantA
    /\ getCookie(jar, AB_COOKIE) = VariantA

----------------------------------------------------------------------------
(* The banner: Spec restricted to script loads, the document's events, the
   banner's buttons and the clock. *)

InitBanner == Init

NextBanner ==
    \/ LoadLite
    \/ LoadFull
    \/ DOMContentLoaded
    \/ \E i \in 1..Len(dom), button \in {"accept", "reject"} : Click(i, button)
    \/ \E id \in timers : TimerFire(id)
    \/ Reload
    \/ \E d \in {1, 365 * DAY} : Tick(d)

SpecBanner == InitBanner /\ [][NextBanner]_vars

----------------------------------------------------------------------------
(* Claims about the banner (checked under SpecBanner) *)

\* C8: while the consent state is Unset, however often the scripts (either
\* file) have run on the page, a run of the injection logic leaves exactly one
\* consent banner in the page, never two or more.
C8_OneBanner ==
    (last.op = "load" /\ ApiGetConsent(api, jar).ts = 0) => Len(dom) = 1

\* C9: after a click on "Accept all" t_consent holds a=1|e=1|m=0|ts=<time of
\* the click>; once the fade-out timers have fired no consent banner remains
\* in the page; and a run of the injection logic while the consent state is
\* Set (after the click in particular) inserts no banner.
C9_AcceptEndToEnd ==
    /\ (last.op = "click" /\ last.button = "accept") =>
           getCookie(jar, CONSENT_COOKIE)
             = A1 \o Bar \o E1 \o Bar \o M0 \o Bar \o <<"t", "s", "=">> \o NumToString(clock)
    /\ (last.op = "timer" /\ timers = {} /\ ApiGetConsent(api, jar).ts > 0) => dom = <<>>
    /\ (last.op = "load" /\ ApiGetConsent(api, jar).ts > 0) => ~last.injected

----------------------------------------------------------------------------
(* The scripts and the raw cookie operations in any environment: a browser
   page, one with `window` but no `document`, and one with neither. *)

Envs ==
    { Browser,
      [window |-> TRUE, document |-> FALSE],
      [window |-> FALSE, document |-> FALSE] }

InitEnv ==
    /\ env \in Envs
    /\ jar = <<>>
    /\ clock = 1
    /\ api = "none"
    /\ dom = <<>>
    /\ readyState = IF env.document THEN "complete" ELSE "undefined"
    /\ pending = <<>>
    /\ timers = {}
    /\ nextId = 1
    /\ last = [op |-> "init"]
    /\ hist = [choice |-> FALSE, raw |-> FALSE, ticks |-> 0]

NextEnv ==
    \/ LoadFull
    \/ LoadLite
    \/ \E name \in RawNames, value \in RawValues, options \in RawOptions :
          CallSet(name, value, options)
    \/ \E name \in RawNames : CallRemove(name)
    \/ \E d \in {1, 365 * DAY} : Tick(d)

SpecEnv == InitEnv /\ [][NextEnv]_vars

\* C13: without a document, set(name, value, options) and the loading of the
\* script that defines the API raise nothing.
C13_NoDocumentNoThrow ==
    (~env.document /\ last.op \in {"set", "load"}) => "threw" \notin DOMAIN last

----------------------------------------------------------------------------
(* The low-level cookie API on a loaded page: set, get and remove with names of
   which one is a prefix of the other, values that need percent-encoding, and
   the options that change what the store keeps. *)

AB_PREFIX == <<"t", "_", "a">>
JarNames == {AB_COOKIE, AB_PREFIX}
JarValues == { <<"1", " ", "2">>, Null }
\* cookies the store holds at a time
MaxCookies == 2
SubPath == <<"/", "s">>
JarOptions == { EmptyRecord, [expiresDays |-> 1], [expiresDays |-> 0], [path |-> SubPath] }

InitJar == Loaded("full")

NextJar ==
    \/ \E name \in JarNames, value \in JarValues, options \in JarOptions :
          Len(jar) < MaxCookies /\ CallSet(name, value, options)
    \/ \E name \in JarNames : CallRemove(name)
    \/ \E name \in JarNames : CallGet(name)
    \/ \E d \in {1, DAY} : Tick(d)

SpecJar == InitJar /\ [][NextJar]_vars

\* C14: after remove(name), get(name) returns null, whatever options the
\* cookie was written with through set.
C14_RemoveDeletes ==
    last.op = "remove" => getCookie(jar, last.name) = Null

\* the cookies of that name that document.cookie shows, in its order
CookiesNamed(j, name) ==
    SelectSeq(ByPathLength(SelectSeq(j, LAMBDA c : PathMatch(c.path)), Len(PagePath)),
              LAMBDA c : c.name = encodeURIComponent(name))

FirstNamed(j, name) ==
    IF CookiesNamed(j, name) = <<>> THEN Null
    ELSE decodeURIComponent(CookiesNamed(j, name)[1].value)

\* set(name, value) with no path option and an expiry that has not passed
PlainSet ==
    /\ last.op = "set"
    /\ "path" \notin DOMAIN last.options
    /\ "expiresDays" \in DOMAIN last.options => last.options.expiresDays > 0

\* C15: get(name) returns the decoded value of the first cookie named exactly
\* name, null when there is none, and String(value) right after
\* set(name, value) with an expiry that has not passed.
C15_GetFirstExact ==
    /\ last.op = "get" =>
          /\ last.ret = FirstNamed(jar, last.name)
          /\ last.retLite = FirstNamed(jar, last.name)
    /\ PlainSet => getCookie(jar, last.name) = String(last.value)

\* C15, amended: as above, except that right after set(name, value) get(name)
\* returns String(value) only when no cookie of that name with a longer path
\* is visible; when one is, get(name) returns the value of that cookie.
C15_GetFirstExactUnlessShadowed ==
    /\ last.op = "get" =>
          /\ last.ret = FirstNamed(jar, last.name)
          /\ last.retLite = FirstNamed(jar, last.name)
    /\ PlainSet =>
          LET named == CookiesNamed(jar, last.name) IN
          /\ named # <<>>
          /\ getCookie(jar, last.name) =
                IF named[1].path = <<"/">> THEN String(last.value)
                ELSE decodeURIComponent(named[1].value)

C15_Witness ==
    /\ last.op = "get"
    /\ last.name = AB_PREFIX
    /\ Len(jar) = 2
    /\ jar[1].name = AB_COOKIE
    /\ jar[1].value # jar[2].value
    /\ jar[2].name = AB_PREFIX
    /\ last.ret = <<"1", " ", "2">>

----------------------------------------------------------------------------
(* hasConsent (checked under SpecConsent) *)

\* names that are no consent category
OtherNames == {"ts", "functional", "Analytics"}

\* the flag that the stored cookie holds for a category, read off its text
StoredFlag(category) ==
    LET str == getCookie(jar, CONSENT_COOKIE) IN
    ~Falsy(str) /\ FlagOf(str, <<CHOOSE k \in {"a", "e", "m"} : FieldOf(<<k>>) = category>>)

\* C16: hasConsent(category) is the stored boolean for analytics, experiments
\* and marketing, and false for every other name, "ts" with a non-zero
\* timestamp included, in every reachable consent state.
C16_HasConsent ==
    /\ \A category \in Categories :
          /\ hasConsent(jar, category) = getConsent(jar)[category]
          /\ hasConsent(jar, category) = StoredFlag(category)
    /\ \A other \in OtherNames : ~hasConsent(jar, other)

C16_Witness ==
    /\ getConsent(jar).ts > 0
    /\ ~hasConsent(jar, "ts")
    /\ hasConsent(jar, "analytics")
    /\ ~hasConsent(jar, "marketing")
    /\ last.op = "setConsent"

----------------------------------------------------------------------------
(* Two tabs on one cookie store: SpecBanner with a second tab whose banner is
   clicked while this tab's page is in any state. *)

\* A click on a banner of another tab that runs `script`: its handler calls
\* setConsent, which writes t_consent into the store both tabs share
OtherTabClick(script, button) ==
    /\ jar' = ApiSetConsent(script, jar, clock,
                            IF button = "accept" THEN ACCEPT_ALL ELSE REJECT_ALL, 365).jar
    /\ last' = [op |-> "otherTab", script |-> script, button |-> button]
    /\ hist' = [hist EXCEPT !.choice = TRUE]
    /\ UNCHANGED <<env, clock, api, dom, readyState, pending, timers, nextId>>

InitTabs == Init

NextTabs ==
    \/ LoadLite
    \/ LoadFull
    \/ \E script \in {"full", "lite"}, button \in {"accept", "reject"} :
          OtherTabClick(script, button)
    \/ DOMContentLoaded
    \/ \E i \in 1..Len(dom), button \in {"accept", "reject"} : Click(i, button)
    \/ \E id \in timers : TimerFire(id)
    \/ Reload
    \/ \E d \in {1, 365 * DAY} : Tick(d)

SpecTabs == InitTabs /\ [][NextTabs]_vars

\* C17: when the consent state is Set by the time the handler-binding step
\* runs at DOMContentLoaded, the step removes the banner and wires no click
\* handlers, for the banner of each script.
C17_BindingRechecks ==
    (last.op = "DOMContentLoaded" /\ ApiGetConsent(api, jar).ts # 0) =>
        \A i \in 1..Len(dom) : dom[i].listeners = <<>> /\ dom[i].kind \notin {"strip", "island"}

----------------------------------------------------------------------------
(* The banner's buttons (checked under SpecBanner) *)

\* the record a click on `button` is to store at time `now`
Clicked(button, now) ==
    [analytics |-> button = "accept", experiments |-> button = "accept",
     marketing |-> FALSE, ts |-> now]

\* C18: a click on "Accept all" stores analytics and experiments true and
\* marketing false, a click on "Reject all" stores all three false; either
\* way the state is Set (ts > 0), and of two clicks before the banner is
\* removed the record of the later one is stored.
C18_ClickStores ==
    last.op = "click" =>
        /\ getConsent(jar) = Clicked(last.button, clock)
        /\ getConsentLite(jar) = Clicked(last.button, clock)
        /\ ApiGetConsent(api, jar).ts > 0

C18_Witness ==
    /\ last.op = "click"
    /\ last.button = "reject"
    /\ last.curr.ts > 0
    /\ last.curr.analytics
    /\ last.id \in timers
    /\ \E i \in 1..Len(dom) : dom[i].id = last.id
    /\ getConsent(jar) = [analytics |-> FALSE, experiments |-> FALSE,
                          marketing |-> FALSE, ts |-> clock]

----------------------------------------------------------------------------
(* Preferences next to consent and the A/B assignment: the page of part_000
   with its banner, and the calls that write the four cookies. *)

InitPrefs == Loaded("full")

NextPrefs ==
    \/ \E val \in PrefValues : CallSetTheme(val, 365)
    \/ \E val \in PrefValues : CallSetLang(val, 365)
    \/ CallSetConsent([marketing |-> TRUE], 365)
    \/ CallAssignAB(<<VariantA, VariantB>>, 14)
    \/ \E i \in 1..Len(dom), button \in {"accept", "reject"} : Click(i, button)
    \/ Tick(14 * DAY)

SpecPrefs == InitPrefs /\ [][NextPrefs]_vars

\* the cookies of one name, as the store holds them
CookiesOf(j, name) == SelectSeq(j, LAMBDA c : c.name = encodeURIComponent(name))

Kept(name) == CookiesOf(jar', name) = CookiesOf(jar, name)

\* C19: setTheme and setLang, whatever the value (null and "" included), leave
\* the consent cookie, the A/B cookie and the other preference's cookie as
\* they are; setConsent, assignAB and banner clicks leave the theme and the
\* language cookie as they are.
C19_IndependentCookies ==
    [][ /\ last'.op = "setTheme" =>
             Kept(CONSENT_COOKIE) /\ Kept(AB_COOKIE) /\ Kept(LANG_KEY)
        /\ last'.op = "setLang" =>
             Kept(CONSENT_COOKIE) /\ Kept(AB_COOKIE) /\ Kept(THEME_KEY)
        /\ last'.op \in {"setConsent", "assignAB", "click"} =>
             Kept(THEME_KEY) /\ Kept(LANG_KEY) ]_vars

C19_Witness ==
    /\ last.op = "setTheme"
    /\ last.val = Null
    /\ last.had
    /\ ~HasCookie(jar, THEME_KEY)
    /\ HasCookie(jar, CONSENT_COOKIE)
    /\ HasCookie(jar, AB_COOKIE)
    /\ HasCookie(jar, LANG_KEY)

----------------------------------------------------------------------------
(* The two consent stores side by side (checked under SpecConsent) *)

\* C20: from the same store and clock, getConsent() of tangled-consent.js and
\* of part_000 return equal records, and setConsent(partial) with the default
\* time-to-live writes the same t_consent value and returns equal records in
\* both, for every partial.
C20_SameConsentStore ==
    /\ getConsentLite(jar) = getConsent(jar)
    /\ \A partial \in Partials :
          LET full == setConsent(jar, clock, partial, 365)
              lite == setConsentLite(jar, clock, partial)
          IN /\ lite.ret = full.ret
             /\ CookiesOf(lite.jar, CONSENT_COOKIE) # <<>>
             /\ \A i \in 1..Len(CookiesOf(lite.jar, CONSENT_COOKIE)) :
                   CookiesOf(lite.jar, CONSENT_COOKIE)[i].value
                     = CookiesOf(full.jar, CONSENT_COOKIE)[i].value
             /\ getCookieLite(lite.jar, CONSENT_COOKIE) = getCookie(full.jar, CONSENT_COOKIE)

C20_Witness ==
    /\ last.op = "setConsent"
    /\ last.args.ttlDays = 365
    /\ hist.raw
    /\ last.curr.ts < 0
    /\ last.args.partial = [analytics |-> TRUE]
    /\ getCookie(jar, CONSENT_COOKIE)
         = <<"a", "=", "1", "|", "e", "=", "0", "|", "m", "=", "0", "|", "t", "s", "=">>
           \o NumToString(clock)
    /\ getConsentLite(jar) = getConsent(jar)
    /\ getConsent(jar) = last.ret

----------------------------------------------------------------------------
(* Setting and clearing a preference through either script's API *)

\* TangledCookies.setTheme(v) of tangled-consent.js
CallSetThemeLite(v) ==
    /\ api = "lite"
    /\ env.document
    /\ jar' = setThemeLite(jar, clock, v)
    /\ last' = [op |-> "setTheme", val |-> v, had |-> HasCookie(jar, THEME_KEY)]
    /\ UNCHANGED <<env, clock, api, dom, readyState, pending, timers, nextId, hist>>

ClearValues == PrefValues \cup {<<"e", "n">>}

InitClear == Loaded("full") \/ Loaded("lite")

NextClear ==
    \/ \E v \in ClearValues : CallSetThemeLite(v)
    \/ \E val \in ClearValues : CallSetTheme(val, 365)
    \/ \E val \in ClearValues : CallSetLang(val, 365)
    \/ \E d \in {1, 365 * DAY} : Tick(d)

SpecClear == InitClear /\ [][NextClear]_vars

\* C21: after setTheme(v) or setLang(v) with v null, undefined or "", the
\* getter of that preference returns null; after any other v it returns
\* String(v).
C21_ClearingPrefs ==
    last.op \in {"setTheme", "setLang"} =>
        getCookie(jar, IF last.op = "setTheme" THEN THEME_KEY ELSE LANG_KEY)
          = IF Falsy(last.val) THEN Null ELSE String(last.val)

====
